---- MODULE Spec2Model ----
(***************************************************************************)
(* Northstar compliance-audit server: the run-audit route, the audit       *)
(* pipeline (text extraction, rule research, gap analysis, scoring and     *)
(* report synthesis) and the document classifier, as state machines.       *)
(*                                                                         *)
(* Texts are modelled by what the code reads of them: where they come from *)
(* and how long they are.  A live backend answer is an input, drawn from   *)
(* the response sets below.                                                *)
(***************************************************************************)
EXTENDS Integers, Sequences, FiniteSets, TLC

VARIABLES
    env,        \* process environment: DEDALUS_API_KEY and Supabase settings
    req,        \* the run-audit request being served
    pc,         \* position of the request in run_audit / run_audit_pipeline
    audit_id,   \* audit id assigned at pipeline start (0: none yet)
    rules,      \* compliance_research returned by research_compliance_rules
    analysis,   \* AnalysisResult returned by analyze_pdf
    report,     \* dict returned by generate_report
    result,     \* audit dict returned by run_audit_pipeline
    exc,        \* exception escaping the pipeline ("" : none)
    response,   \* HTTP response of run_audit
    calls,      \* stages invoked so far, in order
    commits,    \* stage results committed so far, in order, with their mode
    files,      \* report artifacts written to the generated_reports directory
    store,      \* the tables of the database
    runs,       \* concurrent requests: each one's position, audit and user lookup
    u_call,     \* unit harness: the function applied and its arguments
    u_ret       \* unit harness: what it returned

vars == <<env, req, pc, audit_id, rules, analysis, report, result, exc,
          response, calls, commits, files, store, runs, u_call, u_ret>>

pipeVars == <<env, req, pc, audit_id, rules, analysis, report, result, exc,
              response, calls, commits, files, store, runs>>

unitVars == <<u_call, u_ret, runs>>

---------------------------------------------------------------------------
(* Bounds of the model *)

\* longest gap list the score engine is applied to
MaxGaps == 7
\* longest gap list generate_report is applied to in the unit harness
MaxReportGaps == 6
\* longest remediation list a live backend returns
MaxLiveSteps == 6
\* longest gap list a live analyzer returns inside the pipeline
MaxLiveGaps == 1

---------------------------------------------------------------------------
(* Data *)

DocTypes == {"SOX 404", "10-K", "8-K", "Invoice"}

\* the three severities of ComplianceGap, and a label outside them
Severities == {"critical", "high", "medium"}
SeverityLabels == Severities \cup {"low"}

NoText == [origin |-> "none", doc |-> "", len |-> 0]

Text(origin, doc, len) == [origin |-> origin, doc |-> doc, len |-> len]

\* the emptiness test left out: every text counts as non-empty
TruthyAlways(t) == TRUE

\* Python truthiness of a str
Truthy(t) == t.len > 0

RECURSIVE SeqSum(_)
SeqSum(s) == IF s = <<>> THEN 0 ELSE Head(s) + SeqSum(Tail(s))

\* s[:n]
Take(s, n) == SubSeq(s, 1, IF Len(s) < n THEN Len(s) ELSE n)

Max(a, b) == IF a >= b THEN a ELSE b

SeqsUpTo(S, n) == UNION { [1..k -> S] : k \in 0..n }

GapTitles == <<"gap 1", "gap 2", "gap 3", "gap 4", "gap 5", "gap 6",
               "gap 7", "gap 8", "gap 9", "gap 10">>

Location(page, quote, context) ==
    [page |-> page, quote |-> quote, context |-> context]

Gap(severity, title, description, regulation, locations) ==
    [severity |-> severity, title |-> title, description |-> description,
     regulation |-> regulation, locations |-> locations]

\* a gap list as a live analyzer reports it: gap i has the i-th title
LiveGaps(sevs) ==
    [i \in 1..Len(sevs) |->
        Gap(sevs[i], GapTitles[i], "live finding", "live regulation",
            <<Location(i, "live quote", "live context")>>)]

GapLists(n) == { LiveGaps(sevs) : sevs \in SeqsUpTo(SeverityLabels, n) }

---------------------------------------------------------------------------
(* agents/report_generator.py *)

\* severity_weights.get(severity, 3)
SeverityWeight(severity) ==
    CASE severity = "critical" -> 15
      [] severity = "high" -> 8
      [] severity = "medium" -> 3
      [] OTHER -> 3

\* the penalty summed over gaps[1:], the first gap left out
_calculate_score_skipfirst(gaps) ==
    LET total_penalty ==
            SeqSum([i \in 1..(Len(gaps) - 1) |->
                        SeverityWeight(gaps[i + 1].severity)])
    IN  Max(0, 100 - total_penalty)

\* abs(100 - total_penalty) in place of max(0, 100 - total_penalty)
_calculate_score_abs(gaps) ==
    LET total_penalty ==
            SeqSum([i \in 1..Len(gaps) |-> SeverityWeight(gaps[i].severity)])
        d == 100 - total_penalty
    IN  IF d < 0 THEN 0 - d ELSE d

_calculate_score(gaps) ==
    LET total_penalty ==
            SeqSum([i \in 1..Len(gaps) |-> SeverityWeight(gaps[i].severity)])
    IN  Max(0, 100 - total_penalty)

_calculate_grade_strict(score) ==
    IF score > 90 THEN "A"
    ELSE IF score > 80 THEN "B"
    ELSE IF score > 70 THEN "C"
    ELSE IF score > 60 THEN "D"
    ELSE "F"

_calculate_grade(score) ==
    IF score >= 90 THEN "A"
    ELSE IF score >= 80 THEN "B"
    ELSE IF score >= 70 THEN "C"
    ELSE IF score >= 60 THEN "D"
    ELSE "F"

Step(kind, text, timeframe, regulation) ==
    [kind |-> kind, text |-> text, timeframe |-> timeframe,
     regulation |-> regulation]

\* the defaults list of _ensure_five_items
defaults ==
    << Step("default", "Document all remediation actions taken with supporting evidence for audit trail.", "", ""),
       Step("default", "Conduct training for relevant personnel on updated compliance requirements.", "", ""),
       Step("default", "Schedule a follow-up compliance review within 60 days to verify remediation effectiveness.", "", ""),
       Step("default", "Update internal control documentation to reflect current processes.", "", ""),
       Step("default", "Establish a continuous monitoring program for high-risk areas.", "", "") >>

_ensure_five_items_nopad(items) ==
    IF Len(items) >= 5 THEN Take(items, 5) ELSE items

\* padding with defaults[-needed:] instead of defaults[:needed]
_ensure_five_items_tail(items) ==
    IF Len(items) >= 5
    THEN Take(items, 5)
    ELSE LET needed == 5 - Len(items)
         IN  items \o SubSeq(defaults, 5 - needed + 1, 5)

_ensure_five_items(items) ==
    IF Len(items) >= 5
    THEN Take(items, 5)
    ELSE LET needed == 5 - Len(items)
         IN  items \o Take(defaults, needed)

\* the timeframes with high given the default one
TimeframeHighDefault(severity) ==
    CASE severity = "critical" -> "within 14 days"
      [] OTHER -> "within 60 days"

\* timeframe.get(severity, 'within 60 days')
Timeframe(severity) ==
    CASE severity = "critical" -> "within 14 days"
      [] severity = "high" -> "within 30 days"
      [] severity = "medium" -> "within 60 days"
      [] OTHER -> "within 60 days"

CountSeverity(gaps, severity) ==
    Cardinality({ i \in 1..Len(gaps) : gaps[i].severity = severity })

\* the f-string executive summary of _fallback_report, by its parts
FallbackSummary(score, grade, gaps, document_type) ==
    LET critical_count == CountSeverity(gaps, "critical")
        high_count == CountSeverity(gaps, "high")
        medium_count == CountSeverity(gaps, "medium")
        parts ==
            (IF critical_count > 0
                THEN <<[n |-> critical_count, label |-> "critical"]>> ELSE <<>>)
            \o (IF high_count > 0
                THEN <<[n |-> high_count, label |-> "high"]>> ELSE <<>>)
            \o (IF medium_count > 0
                THEN <<[n |-> medium_count, label |-> "medium"]>> ELSE <<>>)
        first_critical ==
            gaps[CHOOSE i \in 1..Len(gaps) :
                    /\ gaps[i].severity = "critical"
                    /\ \A j \in 1..(i - 1) : gaps[j].severity # "critical"]
    IN  [kind |-> "fallback",
         document_type |-> document_type,
         total |-> Len(gaps),
         severity_text |->
            IF parts # <<>> THEN parts ELSE <<[n |-> 0, label |-> "various"]>>,
         score |-> score,
         grade |-> grade,
         closing |->
            IF critical_count > 0 THEN "most critical finding"
            ELSE IF high_count > 0 THEN "high-priority gaps"
            ELSE "satisfactory",
         \* first_critical.get('title', ...).lower()
         most_critical |->
            IF critical_count > 0 THEN [lower |-> first_critical.title]
            ELSE [lower |-> ""]]

\* the fallback report with the remediation left as built from the gaps
_fallback_report_unpadded(score, grade, gaps, document_type) ==
    LET first == Take(gaps, 5)
        remediation ==
            [i \in 1..Len(first) |->
                Step("address", first[i].title, Timeframe(first[i].severity),
                     first[i].regulation)]
    IN  [score |-> score,
         grade |-> grade,
         remediation |-> remediation,
         executive_summary |->
            FallbackSummary(score, grade, gaps, document_type)]

_fallback_report(score, grade, gaps, document_type) ==
    LET first == Take(gaps, 5)
        remediation ==
            [i \in 1..Len(first) |->
                Step("address", first[i].title, Timeframe(first[i].severity),
                     first[i].regulation)]
    IN  [score |-> score,
         grade |-> grade,
         remediation |-> _ensure_five_items(remediation),
         executive_summary |->
            FallbackSummary(score, grade, gaps, document_type)]

\* what runner.run gives generate_report: it raises, or result.final_output is
\* missing/empty ("none"), a ReportOutput, or a str that is a JSON object with
\* both keys ("valid") or lacking one ("invalid"), both with the keys in
\* `data`, or other JSON ("nondict") or no JSON ("notjson")
LiveStepTexts == <<"live step 1", "live step 2", "live step 3", "live step 4",
                   "live step 5", "live step 6", "live step 7", "live step 8">>

LiveStep(i) == Step("live", LiveStepTexts[i], "", "")

LiveRemediation(n) == [i \in 1..n |-> LiveStep(i)]

LiveSummary(n) == [kind |-> "live", len |-> n]

ReportData ==
    { [remediation |-> LiveRemediation(n), executive_summary |-> LiveSummary(m)] :
        n \in 0..MaxLiveSteps, m \in {0, 1} }

ReportResponses ==
    { [kind |-> "raise"], [kind |-> "none"] }
    \cup { [kind |-> "ReportOutput", data |-> d] : d \in ReportData }
    \cup { [kind |-> "str", json |-> "valid", data |-> d] : d \in ReportData }
    \cup { [kind |-> "str", json |-> "invalid", data |-> [remediation |-> d.remediation]] :
            d \in ReportData }
    \cup { [kind |-> "str", json |-> "invalid",
            data |-> [executive_summary |-> d.executive_summary]] : d \in ReportData }
    \cup { [kind |-> "str", json |-> j] : j \in {"nondict", "notjson"} }

\* dict.get(key, default)
DictGet(d, key, default) == IF key \in DOMAIN d THEN d[key] ELSE default

report_filename(id) == [prefix |-> "report_", audit_id |-> id, suffix |-> ".pdf"]

\* the value generate_report returns, the artifact _generate_pdf writes and
\* whether the live result or the fallback was used
ReportReturn(ret, id, mode, pdf) ==
    [raised |-> FALSE, exc |-> "", ret |-> ret, file |-> report_filename(id),
     \* whether _generate_pdf wrote the file
     rendered |-> pdf # "not rendered",
     mode |-> mode]

\* an exception leaving generate_report: nothing is returned
ReportRaise(e) == [raised |-> TRUE, exc |-> e, mode |-> "none"]

\* what writing the report artifact does.  report_path.parent.mkdir raises
\* OSError when the directory cannot be made.  _generate_pdf builds its
\* Paragraphs outside its try: one built from text the markup parser rejects
\* raises ValueError, for text of the live report in the live call only, for
\* the document name or the text of a gap in every call.  Without reportlab
\* (ImportError: return) and when doc.build raises (caught and printed) no
\* file is written and _generate_pdf returns as if it were.
PdfOutcomes ==
    {"written", "not rendered", "markup error in live text",
     "markup error in document", "OSError"}

generate_report(key, id, document_type, gaps, resp, pdf) ==
    LET score == _calculate_score(gaps)
        grade == _calculate_grade(score)
        url == [dir |-> "/api/files/", name |-> report_filename(id)]
        fallback ==
            _fallback_report(score, grade, gaps, document_type)
                @@ [report_pdf_url |-> url]
        \* report_data after "Parse the response"
        parsed ==
            IF resp.kind = "none" THEN
                [raised |-> FALSE, remediation |-> <<>>,
                 executive_summary |-> LiveSummary(0)]
            ELSE IF resp.kind = "ReportOutput" THEN
                [raised |-> FALSE, remediation |-> resp.data.remediation,
                 executive_summary |-> resp.data.executive_summary]
            ELSE IF resp.json \in {"valid", "invalid"} THEN
                \* data = json.loads(...) is a dict
                [raised |-> FALSE,
                 remediation |-> DictGet(resp.data, "remediation", <<>>),
                 executive_summary |->
                     DictGet(resp.data, "executive_summary", LiveSummary(0))]
            ELSE IF resp.json = "notjson" THEN
                \* json.JSONDecodeError: pass
                [raised |-> FALSE, remediation |-> <<>>,
                 executive_summary |-> LiveSummary(0)]
            ELSE
                \* data.get on a non-dict: AttributeError
                [raised |-> TRUE, remediation |-> <<>>,
                 executive_summary |-> LiveSummary(0)]
    IN  IF pdf = "OSError"
        THEN ReportRaise("OSError")
        ELSE IF pdf = "markup error in document"
        THEN \* _generate_pdf raises with the fallback report as well
             ReportRaise("ValueError")
        ELSE IF ~key
        THEN ReportReturn(fallback, id, "fallback", pdf)
        ELSE IF resp.kind = "raise" \/ parsed.raised
                \/ ~Truthy(parsed.executive_summary) \/ parsed.remediation = <<>>
                \/ pdf = "markup error in live text"
        THEN \* except Exception
             ReportReturn(fallback, id, "fallback", pdf)
        ELSE ReportReturn(
                [score |-> score, grade |-> grade,
                 remediation |-> _ensure_five_items(parsed.remediation),
                 executive_summary |-> parsed.executive_summary,
                 report_pdf_url |-> url], id, "live", pdf)

---------------------------------------------------------------------------
(* agents/pdf_analyzer.py *)

\* raw_observations: the fallback notice with its reason, or text of the backend
Notice(reason) ==
    [prefix |-> "NOTICE: Using fallback mock data. Reason: ", text |-> reason]

LiveObservations == [prefix |-> "", text |-> "live observations"]

\* str(result.final_output)
OutputText == [prefix |-> "", text |-> "str(final_output)"]

AnalysisResult(gaps, raw_observations) ==
    [gaps |-> gaps, raw_observations |-> raw_observations]

_mock_analysis(document_type, reason) ==
    LET obs == Notice(reason)
    IN  IF document_type = "SOX 404" THEN
            AnalysisResult(
                << Gap("critical", "Missing ITGC Documentation",
                       "No evidence of IT General Controls documentation for financial reporting systems.",
                       "SOX Section 404(a) - COSO Framework CC5.1",
                       <<Location(1, "Document lacks ITGC controls description", "General")>>),
                   Gap("high", "Inadequate Segregation of Duties",
                       "Same personnel responsible for transaction initiation and approval.",
                       "SOX Section 404(b) - PCAOB AS 2201.22",
                       <<Location(1, "No segregation of duties policy found", "General")>>),
                   Gap("medium", "No Quarterly Access Review",
                       "Access logs for financial systems not reviewed on a quarterly basis.",
                       "SOX Section 404 - COSO CC6.1",
                       <<Location(1, "Access review frequency not specified", "General")>>) >>,
                obs)
        ELSE IF document_type \in {"10-K", "8-K"} THEN
            AnalysisResult(
                << Gap("high", "Risk Factor Disclosure Gap",
                       "Material risks not adequately disclosed in risk factors section.",
                       "SEC Regulation S-K Item 105",
                       <<Location(1, "Limited risk disclosure found", "Risk Factors")>>),
                   Gap("medium", "Forward-Looking Statements",
                       "Forward-looking statements lack sufficient cautionary language.",
                       "SEC Regulation S-K Item 303",
                       <<Location(1, "Missing safe harbor language", "MD&A")>>),
                   Gap("medium", "Executive Compensation Disclosure",
                       "Performance metrics for compensation not fully disclosed.",
                       "SEC Regulation S-K Item 402",
                       <<Location(1, "Compensation metrics unclear", "Executive Compensation")>>) >>,
                obs)
        ELSE
            AnalysisResult(
                << Gap("high", "Documentation Gap",
                       "Required documentation elements are missing or incomplete.",
                       "General compliance standards",
                       <<Location(1, "Incomplete documentation", "General")>>),
                   Gap("medium", "Approval Workflow Missing",
                       "No evidence of proper approval workflow.",
                       "Internal control standards",
                       <<Location(1, "No approval signatures found", "General")>>) >>,
                obs)

\* what runner.run gives analyze_pdf: it raises, or result.final_output is
\* missing/empty ("none"), an AnalysisResult, a str, or another object.  A str
\* is JSON of a valid AnalysisResult ("valid"), a JSON object the model rejects
\* ("invalid"), other JSON ("nondict") or no JSON ("notjson").
AnalyzeData(n) ==
    { AnalysisResult(g, LiveObservations) : g \in GapLists(n) }

AnalyzeResponses(n) ==
    { [kind |-> "raise"], [kind |-> "none"], [kind |-> "object"] }
    \cup { [kind |-> "AnalysisResult", data |-> d] : d \in AnalyzeData(n) }
    \cup { [kind |-> "str", json |-> "valid", data |-> d] : d \in AnalyzeData(n) }
    \cup { [kind |-> "str", json |-> j] : j \in {"invalid", "nondict", "notjson"} }

analyze_pdf(key, document_type, resp) ==
    IF ~key THEN _mock_analysis(document_type, "DEDALUS_API_KEY not set")
    ELSE IF resp.kind = "raise" THEN
        _mock_analysis(document_type, "Dedalus error")
    ELSE IF resp.kind = "none" THEN
        _mock_analysis(document_type, "Dedalus service unavailable")
    ELSE IF resp.kind = "AnalysisResult" THEN resp.data
    ELSE IF resp.kind = "str" /\ resp.json = "valid" THEN
        \* AnalysisResult(**json.loads(final_output))
        resp.data
    ELSE IF resp.kind = "str" /\ resp.json = "invalid" THEN
        \* pydantic's ValidationError is a ValueError: the outer except
        _mock_analysis(document_type, "Dedalus error")
    ELSE
        \* json.JSONDecodeError or TypeError: "wrap the text response"
        AnalysisResult(
            _mock_analysis(document_type, "Dedalus service unavailable").gaps,
            OutputText)

---------------------------------------------------------------------------
(* agents/compliance_researcher.py *)

Research(text, sources, last_updated) ==
    [rules |-> text, sources |-> sources, last_updated |-> last_updated]

Raised(e) == [raised |-> TRUE, exc |-> e]

Returned(v) == [raised |-> FALSE, value |-> v]

\* a ResearchResult by what _research_result_to_dict reads of it: the length of
\* rules_text, the length of the line formatted for each rule, and the lengths
\* of the lines for required_sections and materiality_threshold (0: empty)
ResearchResults ==
    [rules_text_len : {0, 49, 50, 51},
     rule_lines : {<<>>, <<25>>, <<25, 25>>},
     sections_line : {0, 30},
     threshold_line : {0, 20}]

_research_result_to_dict(rr) ==
    LET lines ==
            rr.rule_lines
            \o (IF rr.sections_line > 0 THEN <<rr.sections_line>> ELSE <<>>)
            \o (IF rr.threshold_line > 0 THEN <<rr.threshold_line>> ELSE <<>>)
        \* "\n".join(lines)
        joined == SeqSum(lines) + Max(0, Len(lines) - 1)
        rules_text ==
            IF rr.rules_text_len = 0 \/ rr.rules_text_len < 50
            THEN Text("synthesized", "", joined)
            ELSE Text("rules_text", "", rr.rules_text_len)
    IN  Research(rules_text, "live sources", "today")

\* what runner.run gives _research_with_dedalus: it raises, or
\* result.final_output is missing/empty ("none"), a ResearchResult, a str of
\* `len` characters, or another object (a dict).  `json` says how the str or
\* dict decodes: to a valid ResearchResult ("valid"), to something the model
\* rejects ("invalid"), or, for a str, to no JSON at all ("notjson").
ResearchResponses(rrs) ==
    { [kind |-> "raise", exc |-> e] : e \in {"ImportError", "Exception"} }
    \cup { [kind |-> "none"] }
    \cup { [kind |-> "ResearchResult", data |-> rr] : rr \in rrs }
    \cup { [kind |-> "str", json |-> "valid", len |-> 101, data |-> rr] : rr \in rrs }
    \cup { [kind |-> "str", json |-> j, len |-> n] :
            j \in {"invalid", "notjson"}, n \in {1, 100, 101} }
    \cup { [kind |-> "dict", json |-> "valid", data |-> rr] : rr \in rrs }
    \cup { [kind |-> "dict", json |-> "invalid"] }

\* how the live call of a stage went: not attempted without a key; it raised
\* ("exception"); it gave no output ("empty"); its output could not be decoded
\* into the stage's schema ("undecodable"); or it decoded ("ok")
LiveOutcome(key, resp) ==
    IF ~key THEN "not attempted"
    ELSE IF resp.kind = "raise" THEN "exception"
    ELSE IF resp.kind = "none" THEN "empty"
    ELSE IF resp.kind \in {"ResearchResult", "AnalysisResult", "ReportOutput"}
    THEN "ok"
    ELSE IF resp.kind \in {"str", "dict"} /\ resp.json = "valid" THEN "ok"
    ELSE "undecodable"

_research_with_dedalus(document_type, resp) ==
    IF resp.kind = "raise" THEN Raised(resp.exc)
    ELSE IF resp.kind = "none" THEN Raised("RuntimeError")
    ELSE IF resp.kind = "ResearchResult" THEN
        Returned(_research_result_to_dict(resp.data))
    ELSE IF resp.json = "valid" THEN
        Returned(_research_result_to_dict(resp.data))
    ELSE
        \* except (json.JSONDecodeError, TypeError, ValueError)
        IF resp.kind = "str" /\ resp.len > 100
        THEN Returned(Research(Text("raw output", "", resp.len), "none", "today"))
        ELSE Raised("RuntimeError")

\* len(_FALLBACK_RULES[document_type]["rules"])
FallbackRulesLen(document_type) ==
    CASE document_type = "SOX 404" -> 1326
      [] document_type = "10-K" -> 1293
      [] document_type = "8-K" -> 1156
      [] document_type = "Invoice" -> 1253

_FALLBACK_RULES(document_type) ==
    Research(Text("fallback", document_type, FallbackRulesLen(document_type)),
             "fallback sources", "2026-01-15")

research_compliance_rules(key, document_type, resp) ==
    LET live == _research_with_dedalus(document_type, resp)
        fallback ==
            IF document_type \in DocTypes
            THEN _FALLBACK_RULES(document_type)
            ELSE Research(Text("standard", "", 49), "none", "2026-01-01")
    IN  IF key /\ ~live.raised /\ Truthy(live.value.rules)
               /\ live.value.rules.len > 50
        THEN Returned(live.value)
        ELSE \* insufficient rules, ImportError, Exception, or no key
             Returned(fallback)

---------------------------------------------------------------------------
(* agents/document_classifier.py *)

ClassificationResult(is_financial_document, detected_type, reason) ==
    [is_financial_document |-> is_financial_document,
     detected_type |-> detected_type, reason |-> reason]

\* what runner.run gives classify_document: it raises, or final_output is
\* missing/empty ("none"), or text that is (possibly inside a ``` fence) JSON of
\* a well-formed verdict ("valid", with the verdict), JSON the model rejects
\* ("invalid") or no JSON ("notjson")
ClassifyResponses ==
    { [kind |-> "raise"], [kind |-> "none"] }
    \cup { [kind |-> "str", json |-> "valid",
            data |-> ClassificationResult(b, t, "reason of the backend")] :
            b \in BOOLEAN, t \in {"10-K", "Resume"} }
    \cup { [kind |-> "str", json |-> j] : j \in {"invalid", "notjson"} }

classify_document_open(key, resp) ==
    IF ~key THEN
        ClassificationResult(TRUE, "None", "Skipping validation (no API key)")
    ELSE IF resp.kind = "str" /\ resp.json = "valid" THEN resp.data
    ELSE ClassificationResult(TRUE, "None", "Skipping validation (no API key)")

classify_document(key, resp) ==
    IF ~key THEN
        ClassificationResult(TRUE, "None", "Skipping validation (no API key)")
    ELSE IF resp.kind = "raise" THEN
        ClassificationResult(FALSE, "None",
            "Classification unavailable due to an internal error. Please retry.")
    ELSE IF resp.kind = "str" /\ resp.json = "valid" THEN
        \* json.loads and ClassificationResult(**data) succeed
        resp.data
    ELSE
        \* empty output, or (json.JSONDecodeError, TypeError, ValueError)
        ClassificationResult(FALSE, "None",
            "Validation failed: Agent returned unparseable or empty output.")

---------------------------------------------------------------------------
(* db/database.py *)

Users == {"u1", "u2"}

EmptyStore ==
    [users |-> {}, audits |-> {}, audit_gaps |-> {}, gap_locations |-> {},
     audit_remediations |-> {}]

\* table("users").select("*").eq("id", user_id): result.data is not empty
UsersSelect(s, user_id) == user_id \in s.users

\* table("users").insert(new_user): users is keyed by id, a second row with
\* the same id is refused and execute() raises
UsersInsert(s, user_id) ==
    IF user_id \in s.users THEN Raised("APIError")
    ELSE Returned([s EXCEPT !.users = @ \cup {user_id}])

\* audit_record of save_audit
audit_record(audit_data) ==
    [audit_id |-> audit_data.audit_id,
     user_id |-> audit_data.user_id,
     document_name |-> audit_data.document_name,
     document_type |-> audit_data.document_type,
     score |-> audit_data.score,
     grade |-> audit_data.grade,
     executive_summary |-> audit_data.executive_summary,
     report_pdf_url |-> audit_data.report_pdf_url]

\* created_at of a new audits row: the database's clock at the insert, later
\* than that of every row already there
created_at(s) == [created_at |-> Cardinality(s.audits) + 1]

\* table("audits").insert(audit_record): audits is keyed by audit_id
AuditsInsert(s, audit_data) ==
    IF \E r \in s.audits : r.audit_id = audit_data.audit_id
    THEN Raised("APIError")
    ELSE Returned([s EXCEPT !.audits =
                      @ \cup {audit_record(audit_data) @@ created_at(s)}])

\* the gap rows of save_audit; n stands for the id the database gives the row
GapRows(audit_data) ==
    { [audit_id |-> audit_data.audit_id, n |-> i,
       severity |-> audit_data.gaps[i].severity,
       title |-> audit_data.gaps[i].title,
       description |-> audit_data.gaps[i].description,
       regulation |-> audit_data.gaps[i].regulation] :
        i \in DOMAIN audit_data.gaps }

\* the location rows of save_audit
LocationRows(audit_data) ==
    UNION { { [audit_id |-> audit_data.audit_id, gap |-> i, n |-> j,
                page |-> audit_data.gaps[i].locations[j].page,
                quote |-> audit_data.gaps[i].locations[j].quote,
                context |-> audit_data.gaps[i].locations[j].context] :
                j \in DOMAIN audit_data.gaps[i].locations } :
            i \in DOMAIN audit_data.gaps }

\* the remediation rows of save_audit
RemediationRows(audit_data) ==
    { [audit_id |-> audit_data.audit_id, step_number |-> i,
       description |-> audit_data.remediation[i]] :
        i \in DOMAIN audit_data.remediation }

\* the inserts after the audit record; with a fault the rows written up to the
\* failing table stay (no transaction)
ChildrenInsert(s, audit_data, fault) ==
    IF fault = "audit_gaps.insert" /\ GapRows(audit_data) # {}
    THEN [store |-> s, raised |-> TRUE]
    ELSE IF fault = "gap_locations.insert" /\ LocationRows(audit_data) # {}
    THEN \* the first gap is written, its first location is not
         [store |-> [s EXCEPT !.audit_gaps =
                        @ \cup { g \in GapRows(audit_data) : g.n = 1 }],
          raised |-> TRUE]
    ELSE IF fault = "audit_remediations.insert"
            /\ RemediationRows(audit_data) # {}
    THEN [store |-> [s EXCEPT !.audit_gaps = @ \cup GapRows(audit_data),
                              !.gap_locations = @ \cup LocationRows(audit_data)],
          raised |-> TRUE]
    ELSE [store |-> [s EXCEPT !.audit_gaps = @ \cup GapRows(audit_data),
                              !.gap_locations = @ \cup LocationRows(audit_data),
                              !.audit_remediations =
                                  @ \cup RemediationRows(audit_data)],
          raised |-> FALSE]

\* the calls of save_audit at which the database can fail
SaveFaults ==
    {"none", "get_supabase", "users.select", "users.insert", "audits.insert",
     "audit_gaps.insert", "gap_locations.insert", "audit_remediations.insert"}

\* save_audit run without interruption; fault is the call that fails
save_audit(s, audit_data, fault) ==
    LET user_id == audit_data.user_id
        u == IF UsersSelect(s, user_id) THEN Returned(s)
             ELSE IF fault = "users.insert" THEN Raised("APIError")
             ELSE UsersInsert(s, user_id)
        a == IF u.raised THEN u
             ELSE IF fault = "audits.insert" THEN Raised("APIError")
             ELSE AuditsInsert(u.value, audit_data)
    IN  IF fault \in {"get_supabase", "users.select"}
        THEN [store |-> s, raised |-> TRUE]
        ELSE IF u.raised THEN [store |-> s, raised |-> TRUE]
        ELSE IF a.raised THEN [store |-> u.value, raised |-> TRUE]
        ELSE ChildrenInsert(a.value, audit_data, fault)

\* the sequences that list every row of S once: the orders in which a select
\* without .order() can return the rows S
Orders(S) ==
    { o \in [1..Cardinality(S) -> S] : \A x \in S : \E i \in DOMAIN o : o[i] = x }

\* get_history of db/database.py
db_get_history(s, user_id) ==
    LET data == { r \in s.audits : r.user_id = user_id }
        \* .order("created_at", desc=True)
        rows == CHOOSE o \in Orders(data) :
                      \A i, j \in DOMAIN o :
                          i < j => o[i].created_at >= o[j].created_at
    IN  [i \in DOMAIN rows |->
            [audit_id |-> rows[i].audit_id,
             document_name |-> rows[i].document_name,
             document_type |-> rows[i].document_type,
             score |-> rows[i].score,
             grade |-> rows[i].grade,
             timestamp |-> rows[i].created_at]]

None == [none |-> TRUE]

\* the rows audit_gaps holds of an audit
GapsOf(s, id) == { g \in s.audit_gaps : g.audit_id = id }

\* the rows gap_locations holds of a gap
LocationsOf(s, gap) ==
    { l \in s.gap_locations : l.audit_id = gap.audit_id /\ l.gap = gap.n }

\* the orders in which the selects of get_audit that carry no .order() can
\* return their rows: one order of the gaps, and one of each gap's locations
ReadOrders(s, id) ==
    { o \in [gaps : Orders(GapsOf(s, id)),
             locations : [GapsOf(s, id) ->
                             UNION { Orders(LocationsOf(s, g)) :
                                         g \in GapsOf(s, id) }]] :
        \A g \in GapsOf(s, id) : o.locations[g] \in Orders(LocationsOf(s, g)) }

\* get_audit of db/database.py; order is the order the database returns the
\* unordered selects in
db_get_audit(s, id, order) ==
    IF ~ \E r \in s.audits : r.audit_id = id
    THEN None
    ELSE
        LET audit == CHOOSE r \in s.audits : r.audit_id = id
            gaps == [i \in DOMAIN order.gaps |->
                        LET gap == order.gaps[i]
                            locations_result == order.locations[gap]
                        IN  Gap(gap.severity, gap.title, gap.description,
                                gap.regulation,
                                [j \in DOMAIN locations_result |->
                                    Location(locations_result[j].page,
                                             locations_result[j].quote,
                                             locations_result[j].context)])]
            remediation_result ==
                { r \in s.audit_remediations : r.audit_id = id }
            \* .order("step_number")
            remediation ==
                [i \in 1..Cardinality(remediation_result) |->
                    (CHOOSE r \in remediation_result :
                        Cardinality({ q \in remediation_result :
                                        q.step_number < r.step_number }) = i - 1
                    ).description]
        IN  [audit_id |-> audit.audit_id,
             score |-> audit.score,
             grade |-> audit.grade,
             document_name |-> audit.document_name,
             document_type |-> audit.document_type,
             timestamp |-> audit.created_at,
             gaps |-> gaps,
             remediation |-> remediation,
             executive_summary |-> audit.executive_summary,
             report_pdf_url |-> audit.report_pdf_url]

---------------------------------------------------------------------------
(* routes/audit.py and services/pipeline.py *)

\* document_type.lower() for the values a client sends
Lower(raw) ==
    CASE raw = "SOX 404" -> "sox 404"
      [] raw = "10-k" -> "10-k"
      [] raw = "8-K" -> "8-k"
      [] raw = "INVOICE" -> "invoice"
      [] OTHER -> raw

\* the ResearchResults the pipeline's backend answers with
PipelineResearchResults ==
    { rr \in ResearchResults :
        /\ rr.rules_text_len \in {0, 51}
        /\ rr.rule_lines \in {<<>>, <<25, 25>>}
        /\ rr.sections_line = 0 /\ rr.threshold_line = 0 }

RawDocTypes == {"SOX 404", "10-k", "8-K", "INVOICE", "memo"}

\* doc_type_map.get(document_type.lower()); "" stands for None
doc_type_map(lower) ==
    CASE lower = "sox 404" -> "SOX 404"
      [] lower = "10-k" -> "10-K"
      [] lower = "8-k" -> "8-K"
      [] lower = "invoice" -> "Invoice"
      [] OTHER -> ""

\* what the Gatekeeper's backend answers about an uploaded document
GateAnswers ==
    { r \in ClassifyResponses :
        \/ r.kind = "str" /\ r.json = "valid" /\ r.data.detected_type = "Resume"
                          /\ ~r.data.is_financial_document
        \/ r.kind = "str" /\ r.json = "valid" /\ r.data.detected_type = "10-K"
                          /\ r.data.is_financial_document }

Requests ==
    [filename_pdf : BOOLEAN, document_type : RawDocTypes, user_id : {"u1"},
     extractable : BOOLEAN, gate : GateAnswers]

\* uuid.uuid4().hex[:8], prefixed
AuditIds == {"aud_1a2b3c4d", "aud_9f8e7d6c"}

NoRequest == [filename_pdf |-> FALSE]
NoResult == [audit_id |-> ""]
NoResponse == [status |-> 0]
NoRules == Research(NoText, "none", "")
NoAnalysis == AnalysisResult(<<>>, [prefix |-> "", text |-> ""])
NoReport == [score |-> -1]

HttpError404(detail) == [status |-> 404, detail |-> detail]

\* routes/files.py, get_file: filename is the last segment of the URL; the
\* names the pipeline makes hold no "..", "/" or "\\"
get_file(dir, filename) ==
    IF filename \in dir
    THEN [status |-> 200, file |-> filename]
    ELSE HttpError404("File not found")

\* requests served at the same time
---------------------------------------------------------------------------
(* routes/history.py *)

MockStep(text) == Step("mock", text, "", "")

\* MOCK_AUDITS, in the order of the dict
MOCK_AUDITS ==
    << [audit_id |-> "aud_abc123",
        score |-> 62,
        grade |-> "C",
        document_name |-> "sox_404_report.pdf",
        document_type |-> "SOX 404",
        timestamp |-> "2026-02-07T14:32:00Z",
        gaps |->
            << Gap("critical", "Missing ITGC Documentation",
                   "No evidence of IT General Controls documentation for financial reporting systems.",
                   "SOX Section 404(a) - COSO Framework CC5.1",
                   <<Location(3, "The company maintains financial reporting systems managed by the IT department",
                              "Section 2.1 - Internal Controls Overview")>>),
               Gap("high", "Inadequate Segregation of Duties",
                   "Same personnel responsible for transaction initiation and approval.",
                   "SOX Section 404(b) - PCAOB AS 2201.22",
                   <<Location(5, "Transaction processing is handled by the accounting team",
                              "Section 3.2 - Transaction Controls"),
                     Location(7, "Approvals are conducted by department managers",
                              "Section 4.1 - Approval Workflow")>>),
               Gap("medium", "No Quarterly Access Review",
                   "Access logs for financial systems not reviewed on a quarterly basis.",
                   "SOX Section 404 - COSO CC6.1",
                   <<Location(8, "System access is reviewed on an annual basis",
                              "Section 5.1 - Access Management")>>) >>,
        remediation |->
            << MockStep("Establish and document ITGC controls for all financial reporting systems within 30 days."),
               MockStep("Implement role-based access control to enforce segregation of duties."),
               MockStep("Schedule quarterly access log reviews with sign-off from compliance officer."),
               MockStep("Deploy automated monitoring for privileged account usage."),
               MockStep("Conduct a full internal control gap assessment before next reporting period.") >>,
        executive_summary |->
            [kind |-> "mock", text |-> "The audit identified three compliance gaps in the uploaded SOX 404 document. ..."],
        report_pdf_url |->
            [dir |-> "/api/files/", name |-> report_filename("aud_abc123")]],
       [audit_id |-> "aud_def456",
        score |-> 78,
        grade |-> "B",
        document_name |-> "10k_q3_2025.pdf",
        document_type |-> "10-K",
        timestamp |-> "2026-02-07T13:10:00Z",
        gaps |->
            << Gap("high", "Risk Factor Disclosure Gap",
                   "Emerging cybersecurity risks not adequately disclosed in risk factors section.",
                   "SEC Regulation S-K Item 105",
                   <<Location(12, "The company faces various operational risks",
                              "Item 1A - Risk Factors")>>),
               Gap("medium", "MD&A Forward-Looking Statements",
                   "Forward-looking statements lack sufficient cautionary language.",
                   "SEC Regulation S-K Item 303",
                   <<Location(25, "We expect continued growth in the coming fiscal year",
                              "Item 7 - MD&A")>>),
               Gap("medium", "Executive Compensation Disclosure",
                   "Performance metrics for executive bonuses not fully disclosed.",
                   "SEC Regulation S-K Item 402",
                   <<Location(45, "Executive compensation is tied to company performance",
                              "Item 11 - Executive Compensation")>>) >>,
        remediation |->
            << MockStep("Update risk factors to include detailed cybersecurity risk disclosures."),
               MockStep("Add safe harbor language to all forward-looking statements in MD&A."),
               MockStep("Disclose specific performance metrics and thresholds for executive compensation."),
               MockStep("Conduct a full disclosure controls assessment before next filing."),
               MockStep("Engage external counsel to review disclosure adequacy.") >>,
        executive_summary |->
            [kind |-> "mock", text |-> "The 10-K filing audit identified three compliance gaps. ..."],
        report_pdf_url |->
            [dir |-> "/api/files/", name |-> report_filename("aud_def456")]] >>

\* the route get_history; configured is is_db_configured(), fault says that
\* the database call raises
get_history(s, configured, user_id, fault) ==
    IF configured /\ ~fault
    THEN [audits |-> db_get_history(s, user_id)]
    ELSE \* not configured, or the except branch fell through: mock data
         [audits |->
            [i \in DOMAIN MOCK_AUDITS |->
                [audit_id |-> MOCK_AUDITS[i].audit_id,
                 document_name |-> MOCK_AUDITS[i].document_name,
                 document_type |-> MOCK_AUDITS[i].document_type,
                 score |-> MOCK_AUDITS[i].score,
                 grade |-> MOCK_AUDITS[i].grade,
                 timestamp |-> MOCK_AUDITS[i].timestamp]]]

\* the route get_audit; order is the order the database returns rows in
get_audit(s, configured, id, fault, order) ==
    LET audit == IF configured /\ ~fault THEN db_get_audit(s, id, order)
                 ELSE None
    IN  IF audit # None THEN audit
        ELSE IF ~ \E i \in DOMAIN MOCK_AUDITS : MOCK_AUDITS[i].audit_id = id
        THEN HttpError404("Audit not found")
        ELSE MOCK_AUDITS[CHOOSE i \in DOMAIN MOCK_AUDITS :
                            MOCK_AUDITS[i].audit_id = id]

\* the audit ids a client asks the detail route for
QueriedIds == {"aud_1a2b3c4d", "aud_9f8e7d6c", "aud_abc123", "aud_00000000"}

Procs == {1, 2}
NoRun == [pc |-> "idle"]

HttpError(status, error_code, detail) ==
    [status |-> status, error_code |-> error_code, detail |-> detail]

Init ==
    /\ env \in [dedalus_key : BOOLEAN, db : BOOLEAN]
    /\ req = NoRequest
    /\ pc = "idle"
    /\ audit_id = ""
    /\ rules = NoRules
    /\ analysis = NoAnalysis
    /\ report = NoReport
    /\ result = NoResult
    /\ exc = ""
    /\ response = NoResponse
    /\ calls = <<>>
    /\ commits = <<>>
    /\ files = {}
    /\ store = EmptyStore
    /\ runs = [p \in Procs |-> NoRun]
    /\ u_call = [fn |-> "none"]
    /\ u_ret = [fn |-> "none"]

\* run_audit up to the call of the pipeline: validation of the upload
RunAudit ==
    /\ pc = "idle"
    /\ \E r \in Requests :
        /\ req' = r
        /\ IF ~r.filename_pdf
           THEN /\ response' = HttpError(400, "", "File must be a PDF")
                /\ pc' = "responded"
           ELSE IF doc_type_map(Lower(r.document_type)) = ""
           THEN /\ response' = HttpError(400, "", "Invalid document_type.")
                /\ pc' = "responded"
           ELSE /\ response' = response
                /\ pc' = "pipeline"
    /\ UNCHANGED <<env, audit_id, rules, analysis, report, result, exc, calls,
                   commits, files, store, u_call, u_ret, runs>>

document_type_clean == doc_type_map(Lower(req.document_type))

\* run_audit_pipeline: audit id, timestamp, step 1 (text extraction)
PipelineStart ==
    /\ pc = "pipeline"
    /\ \E id \in AuditIds : audit_id' = id
    /\ calls' = Append(calls, "extract")
    /\ IF req.extractable
       THEN /\ pc' = "research"
            /\ commits' = Append(commits,
                  [stage |-> "extract", mode |-> "pure", live |-> "not attempted"])
            /\ exc' = exc
       ELSE \* except PDFExtractionError: raise ValueError
            /\ pc' = "raised"
            /\ commits' = commits
            /\ exc' = "ValueError: PDF extraction failed:"
    /\ UNCHANGED <<env, req, rules, analysis, report, result, response, files,
                   store, u_call, u_ret, runs>>

\* step 2: await research_compliance_rules(document_type)
StepResearch ==
    /\ pc = "research"
    /\ \E resp \in ResearchResponses(PipelineResearchResults) :
        LET r == research_compliance_rules(env.dedalus_key, document_type_clean, resp)
        IN  /\ calls' = Append(calls, "research")
            /\ IF r.raised
               THEN /\ pc' = "raised"
                    /\ exc' = r.exc
                    /\ UNCHANGED <<rules, commits>>
               ELSE /\ pc' = "analyze"
                    /\ rules' = r.value
                    /\ exc' = exc
                    /\ commits' = Append(commits,
                          [stage |-> "research",
                           mode |-> IF r.value.rules.origin = "fallback"
                                    THEN "fallback" ELSE "live",
                           live |-> LiveOutcome(env.dedalus_key, resp)])
    /\ UNCHANGED <<env, req, audit_id, analysis, report, result, response,
                   files, store, u_call, u_ret, runs>>

\* step 3 with a retry: a failed live call is attempted again
StepAnalyzeRetry ==
    /\ pc = "analyze"
    /\ Len(calls) < 6
    /\ \E resp \in AnalyzeResponses(MaxLiveGaps) :
        LET a == analyze_pdf(env.dedalus_key, document_type_clean, resp)
            failed == LiveOutcome(env.dedalus_key, resp) \in
                          {"exception", "empty", "undecodable"}
        IN  /\ calls' = Append(calls, "analyze")
            /\ analysis' = IF failed THEN analysis ELSE a
            /\ commits' =
                  IF failed THEN commits
                  ELSE Append(commits,
                          [stage |-> "analyze", mode |-> "live", live |-> "ok"])
            /\ pc' = IF failed THEN "analyze" ELSE "report"
    /\ UNCHANGED <<env, req, audit_id, rules, report, result, exc, response,
                   files, store, u_call, u_ret, runs>>

\* step 3: await analyze_pdf(extracted, document_type, rules_text)
StepAnalyze ==
    /\ pc = "analyze"
    /\ \E resp \in AnalyzeResponses(MaxLiveGaps) :
        LET a == analyze_pdf(env.dedalus_key, document_type_clean, resp)
        IN  /\ calls' = Append(calls, "analyze")
            /\ analysis' = a
            /\ commits' = Append(commits,
                  [stage |-> "analyze",
                   mode |-> IF a.raw_observations.prefix # "" THEN "fallback"
                            ELSE IF a.raw_observations = OutputText THEN "wrapped"
                            ELSE "live",
                   live |-> LiveOutcome(env.dedalus_key, resp)])
            /\ pc' = "report"
    /\ UNCHANGED <<env, req, audit_id, rules, report, result, exc, response,
                   files, store, u_call, u_ret, runs>>

\* gaps_dict: the gaps of the analysis as dicts, field by field
gaps_dict ==
    [i \in 1..Len(analysis.gaps) |->
        [severity |-> analysis.gaps[i].severity,
         title |-> analysis.gaps[i].title,
         description |-> analysis.gaps[i].description,
         regulation |-> analysis.gaps[i].regulation,
         locations |->
            [j \in 1..Len(analysis.gaps[i].locations) |->
                [page |-> analysis.gaps[i].locations[j].page,
                 quote |-> analysis.gaps[i].locations[j].quote,
                 context |-> analysis.gaps[i].locations[j].context]]]]

\* a live call of step 2, 3 or 4 whose backend never answers: AsyncDedalus()
\* is made without a timeout and runner.run is awaited without one, so the
\* await does not return
LiveCallBlocks ==
    /\ pc \in {"research", "analyze", "report"}
    /\ env.dedalus_key
    /\ calls' = calls \o (IF pc = "report" THEN <<"score", "report">>
                           ELSE <<pc>>)
    /\ commits' = commits \o
          (IF pc = "report"
           THEN <<[stage |-> "score", mode |-> "pure", live |-> "not attempted"]>>
           ELSE <<>>)
    /\ pc' = "blocked"
    /\ UNCHANGED <<env, req, audit_id, rules, analysis, report, result, exc,
                   response, files, store, u_call, u_ret, runs>>

\* step 4: await generate_report(...), then the final response dict
StepReport ==
    /\ pc = "report"
    /\ \E resp \in ReportResponses, pdf \in PdfOutcomes :
        LET g == generate_report(env.dedalus_key, audit_id, document_type_clean,
                                 gaps_dict, resp, pdf)
        IN  /\ calls' = calls \o <<"score", "report">>
            /\ IF g.raised
               THEN
                /\ pc' = "raised"
                /\ exc' = g.exc
                /\ commits' = Append(commits,
                      [stage |-> "score", mode |-> "pure", live |-> "not attempted"])
                /\ UNCHANGED <<report, files, result>>
               ELSE
              /\ exc' = exc
              /\ report' = g.ret
              /\ files' = IF g.rendered THEN files \cup {g.file} ELSE files
              /\ commits' = commits \o
                  << [stage |-> "score", mode |-> "pure", live |-> "not attempted"],
                     [stage |-> "report", mode |-> g.mode,
                      live |-> LiveOutcome(env.dedalus_key, resp)] >>
              /\ pc' = "returned"
              /\ result' =
                  [audit_id |-> audit_id,
                   user_id |-> req.user_id,
                   source |-> "web",
                   score |-> g.ret.score,
                   grade |-> g.ret.grade,
                   document_name |-> "upload.pdf",
                   document_type |-> document_type_clean,
                   timestamp |-> "now",
                   gaps |-> gaps_dict,
                   remediation |-> g.ret.remediation,
                   executive_summary |-> g.ret.executive_summary,
                   report_pdf_url |->
                       [dir |-> "/api/files/", name |-> report_filename(audit_id)]]
    /\ UNCHANGED <<env, req, audit_id, rules, analysis, response, store,
                   u_call, u_ret, runs>>

\* run_audit: the except clauses with the two prefixes taken for one another
RunAuditErrorConflated ==
    /\ pc = "raised"
    /\ response' =
        IF exc = "ValueError: PDF extraction failed:"
        THEN HttpError(400, "NOT_FINANCIAL_DOCUMENT", exc)
        ELSE IF exc = "ValueError: Invalid document:"
        THEN HttpError(400, "PDF_EXTRACTION_FAILED", exc)
        ELSE IF exc = "ValueError"
        THEN HttpError(400, "VALIDATION_ERROR", exc)
        ELSE HttpError(500, "", "Audit processing failed")
    /\ pc' = "responded"
    /\ UNCHANGED <<env, req, audit_id, rules, analysis, report, result, exc,
                   calls, commits, files, store, u_call, u_ret, runs>>

\* run_audit: except ValueError / except Exception
RunAuditError ==
    /\ pc = "raised"
    /\ response' =
        IF exc = "ValueError: Invalid document:"
        THEN HttpError(400, "NOT_FINANCIAL_DOCUMENT", exc)
        ELSE IF exc = "ValueError: PDF extraction failed:"
        THEN HttpError(400, "PDF_EXTRACTION_FAILED", exc)
        ELSE IF exc = "ValueError"
        THEN HttpError(400, "VALIDATION_ERROR", exc)
        ELSE HttpError(500, "", "Audit processing failed")
    /\ pc' = "responded"
    /\ UNCHANGED <<env, req, audit_id, rules, analysis, report, result, exc,
                   calls, commits, files, store, u_call, u_ret, runs>>

\* run_audit after the pipeline returned, where a failed save is not caught
RunAuditRespondStrict ==
    /\ pc = "returned"
    /\ \E fault \in SaveFaults :
        LET saved == save_audit(store, result, fault)
        IN  /\ store' = IF env.db THEN saved.store ELSE store
            /\ response' =
                IF env.db /\ saved.raised
                THEN HttpError(500, "", "Audit processing failed")
                ELSE [status |-> 200,
                      body |-> [k \in DOMAIN result \ {"user_id", "source"}
                                  |-> result[k]]]
    /\ pc' = "responded"
    /\ UNCHANGED <<env, req, audit_id, rules, analysis, report, result, exc,
                   calls, commits, files, u_call, u_ret, runs>>

\* run_audit after the pipeline returned: save if configured, then respond
RunAuditRespond ==
    /\ pc = "returned"
    /\ \E fault \in SaveFaults :
        LET saved == save_audit(store, result, fault)
        IN  /\ store' = IF env.db THEN saved.store ELSE store
            /\ response' =
                [status |-> 200,
                 body |-> [k \in DOMAIN result \ {"user_id", "source"}
                             |-> result[k]]]
    /\ pc' = "responded"
    /\ UNCHANGED <<env, req, audit_id, rules, analysis, report, result, exc,
                   calls, commits, files, u_call, u_ret, runs>>

Next ==
    \/ RunAudit
    \/ PipelineStart
    \/ StepResearch
    \/ StepAnalyze
    \/ StepReport
    \/ LiveCallBlocks
    \/ RunAuditError
    \/ RunAuditRespond

Spec == Init /\ [][Next]_vars

---------------------------------------------------------------------------
(* Requests served at the same time: the event loop runs one request up to
   its next await of the database, then any other *)

\* the audit run_audit_pipeline returns without DEDALUS_API_KEY
OfflineAudit(id, user_id, document_type) ==
    LET a == analyze_pdf(FALSE, document_type, [kind |-> "none"])
        g == generate_report(FALSE, id, document_type, a.gaps,
                             [kind |-> "none"], "written")
    IN  [audit_id |-> id,
         user_id |-> user_id,
         source |-> "web",
         score |-> g.ret.score,
         grade |-> g.ret.grade,
         document_name |-> "upload.pdf",
         document_type |-> document_type,
         timestamp |-> "now",
         gaps |-> a.gaps,
         remediation |-> g.ret.remediation,
         executive_summary |-> g.ret.executive_summary,
         report_pdf_url |->
             [dir |-> "/api/files/", name |-> report_filename(id)]]

InitStore ==
    /\ env \in [dedalus_key : {FALSE}, db : BOOLEAN]
    /\ req = NoRequest
    /\ pc = "idle"
    /\ audit_id = ""
    /\ rules = NoRules
    /\ analysis = NoAnalysis
    /\ report = NoReport
    /\ result = NoResult
    /\ exc = ""
    /\ response = NoResponse
    /\ calls = <<>>
    /\ commits = <<>>
    /\ files = {}
    /\ \E known \in SUBSET {"u1"} : store = [EmptyStore EXCEPT !.users = known]
    /\ runs = [p \in Procs |-> NoRun]
    /\ u_call = [fn |-> "none"]
    /\ u_ret = [fn |-> "none"]

\* run_audit up to the save: the pipeline run, with its audit id and report
RunPipeline(p) ==
    /\ runs[p].pc = "idle"
    /\ \E id \in AuditIds, user_id \in Users :
        /\ runs' = [runs EXCEPT ![p] =
              [pc |-> IF env.db THEN "users.select" ELSE "respond",
               audit |-> OfflineAudit(id, user_id, "Invoice"),
               saved |-> FALSE]]
        /\ files' = files \cup {report_filename(id)}
    /\ UNCHANGED <<env, req, pc, audit_id, rules, analysis, report, result,
                   exc, response, calls, commits, store, u_call, u_ret>>

\* ensure_user_exists: await the select
EnsureUserSelect(p) ==
    /\ runs[p].pc = "users.select"
    /\ runs' = [runs EXCEPT ![p].pc =
                  IF UsersSelect(store, runs[p].audit.user_id)
                  THEN "audits.insert" ELSE "users.insert"]
    /\ UNCHANGED <<env, req, pc, audit_id, rules, analysis, report, result,
                   exc, response, calls, commits, files, store, u_call, u_ret>>

\* ensure_user_exists: await the insert of the new user
EnsureUserInsert(p) ==
    /\ runs[p].pc = "users.insert"
    /\ LET r == UsersInsert(store, runs[p].audit.user_id)
       IN  IF r.raised
           THEN \* save_audit raises, run_audit prints the warning
                /\ runs' = [runs EXCEPT ![p].pc = "respond"]
                /\ store' = store
           ELSE /\ runs' = [runs EXCEPT ![p].pc = "audits.insert"]
                /\ store' = r.value
    /\ UNCHANGED <<env, req, pc, audit_id, rules, analysis, report, result,
                   exc, response, calls, commits, files, u_call, u_ret>>

\* save_audit: await the insert of the audit record
SaveAuditInsert(p) ==
    /\ runs[p].pc = "audits.insert"
    /\ LET r == AuditsInsert(store, runs[p].audit)
       IN  IF r.raised
           THEN /\ runs' = [runs EXCEPT ![p].pc = "respond"]
                /\ store' = store
           ELSE /\ runs' = [runs EXCEPT ![p].pc = "children.insert"]
                /\ store' = r.value
    /\ UNCHANGED <<env, req, pc, audit_id, rules, analysis, report, result,
                   exc, response, calls, commits, files, u_call, u_ret>>

\* save_audit: the inserts of gaps, locations and remediation steps; they
\* touch rows of this audit only
SaveChildrenInsert(p) ==
    /\ runs[p].pc = "children.insert"
    /\ store' = ChildrenInsert(store, runs[p].audit, "none").store
    /\ runs' = [runs EXCEPT ![p].pc = "respond", ![p].saved = TRUE]
    /\ UNCHANGED <<env, req, pc, audit_id, rules, analysis, report, result,
                   exc, response, calls, commits, files, u_call, u_ret>>

\* run_audit: return the response
RunRespond(p) ==
    /\ runs[p].pc = "respond"
    /\ runs' = [runs EXCEPT ![p].pc = "responded"]
    /\ UNCHANGED <<env, req, pc, audit_id, rules, analysis, report, result,
                   exc, response, calls, commits, files, store, u_call, u_ret>>

\* GET /api/history: a read, served between the steps of the running requests
GetHistory ==
    /\ \E user_id \in Users, fault \in BOOLEAN :
        /\ fault => env.db
        /\ u_call' = [fn |-> "get_history", user_id |-> user_id, fault |-> fault]
        /\ u_ret' = [fn |-> "get_history",
                     value |-> get_history(store, env.db, user_id, fault)]
    /\ UNCHANGED <<env, req, pc, audit_id, rules, analysis, report, result,
                   exc, response, calls, commits, files, store, runs>>

\* GET /api/audit/{audit_id}: its selects are taken as one read
GetAudit ==
    /\ \E id \in QueriedIds, fault \in BOOLEAN :
      \E order \in ReadOrders(store, id) :
        /\ fault => env.db
        /\ u_call' = [fn |-> "get_audit", audit_id |-> id, fault |-> fault]
        /\ u_ret' = [fn |-> "get_audit",
                     value |-> get_audit(store, env.db, id, fault, order)]
    /\ UNCHANGED <<env, req, pc, audit_id, rules, analysis, report, result,
                   exc, response, calls, commits, files, store, runs>>

NextStore ==
    \/ \E p \in Procs :
        \/ RunPipeline(p)
        \/ EnsureUserSelect(p)
        \/ EnsureUserInsert(p)
        \/ SaveAuditInsert(p)
        \/ SaveChildrenInsert(p)
        \/ RunRespond(p)
    \/ GetHistory
    \/ GetAudit

SpecStore == InitStore /\ [][NextStore]_vars

---------------------------------------------------------------------------
(* The functions applied on their own to drawn arguments *)

\* gap lists for generate_report: what it reads of a gap beyond the score and
\* the fallback report (both applied on their own to every list) is nothing
ReportGapLists(n) ==
    { LiveGaps(sevs) : sevs \in SeqsUpTo({"critical", "medium"}, n) }

UnitIdle ==
    /\ pc = "idle"
    /\ u_call.fn = "none"

UnitCalculateScore ==
    /\ UnitIdle
    /\ \E gaps \in GapLists(MaxGaps) :
        /\ u_call' = [fn |-> "_calculate_score", gaps |-> gaps]
        /\ u_ret' = [fn |-> "_calculate_score", value |-> _calculate_score(gaps)]
    /\ UNCHANGED pipeVars

UnitCalculateGrade ==
    /\ UnitIdle
    /\ \E score \in 0..100 :
        /\ u_call' = [fn |-> "_calculate_grade", score |-> score]
        /\ u_ret' = [fn |-> "_calculate_grade", value |-> _calculate_grade(score)]
    /\ UNCHANGED pipeVars

UnitEnsureFiveItems ==
    /\ UnitIdle
    /\ \E n \in 0..MaxLiveSteps :
        /\ u_call' = [fn |-> "_ensure_five_items", items |-> LiveRemediation(n)]
        /\ u_ret' = [fn |-> "_ensure_five_items",
                     value |-> _ensure_five_items(LiveRemediation(n))]
    /\ UNCHANGED pipeVars

UnitFallbackReport ==
    /\ UnitIdle
    /\ \E gaps \in GapLists(MaxReportGaps), dt \in {"Invoice"} :
        LET score == _calculate_score(gaps)
            grade == _calculate_grade(score)
        IN  /\ u_call' = [fn |-> "_fallback_report", score |-> score,
                          grade |-> grade, gaps |-> gaps, document_type |-> dt]
            /\ u_ret' = [fn |-> "_fallback_report",
                         value |-> _fallback_report(score, grade, gaps, dt)]
    /\ UNCHANGED pipeVars

UnitGenerateReport ==
    /\ UnitIdle
    /\ \E gaps \in ReportGapLists(MaxReportGaps), resp \in ReportResponses,
          id \in AuditIds, dt \in {"Invoice"}, pdf \in PdfOutcomes :
        /\ env.dedalus_key \/ resp.kind = "none"
        /\ u_call' = [fn |-> "generate_report", audit_id |-> id,
                      document_type |-> dt, gaps |-> gaps, resp |-> resp,
                      pdf |-> pdf]
        /\ u_ret' = [fn |-> "generate_report",
                     value |-> generate_report(env.dedalus_key, id, dt, gaps,
                                               resp, pdf)]
    /\ UNCHANGED pipeVars

UnitClassifyDocument ==
    /\ UnitIdle
    /\ \E resp \in ClassifyResponses :
        /\ u_call' = [fn |-> "classify_document", resp |-> resp]
        /\ u_ret' = [fn |-> "classify_document",
                     value |-> classify_document(env.dedalus_key, resp)]
    /\ UNCHANGED pipeVars

UnitResearch ==
    /\ UnitIdle
    /\ \E dt \in DocTypes, resp \in ResearchResponses(ResearchResults) :
        /\ u_call' = [fn |-> "research_compliance_rules", document_type |-> dt,
                      resp |-> resp]
        /\ u_ret' = [fn |-> "research_compliance_rules",
                     value |-> research_compliance_rules(env.dedalus_key, dt, resp)]
    /\ UNCHANGED pipeVars

UnitAnalyzePdf ==
    /\ UnitIdle
    /\ \E dt \in DocTypes, resp \in AnalyzeResponses(MaxLiveGaps) :
        /\ u_call' = [fn |-> "analyze_pdf", document_type |-> dt, resp |-> resp]
        /\ u_ret' = [fn |-> "analyze_pdf",
                     value |-> analyze_pdf(env.dedalus_key, dt, resp)]
    /\ UNCHANGED pipeVars

UnitNext ==
    \/ UnitCalculateScore
    \/ UnitCalculateGrade
    \/ UnitEnsureFiveItems
    \/ UnitFallbackReport
    \/ UnitGenerateReport
    \/ UnitClassifyDocument
    \/ UnitResearch
    \/ UnitAnalyzePdf

SpecUnit == Init /\ [][UnitNext]_vars

---------------------------------------------------------------------------
(* Claims *)

Completed == pc = "returned" \/ (pc = "responded" /\ response.status = 200)

FailedLive == {"exception", "empty", "undecodable"}

WellFormedAudit(a) ==
    /\ a.audit_id \in AuditIds
    /\ a.score \in 0..100
    /\ a.grade \in {"A", "B", "C", "D", "F"}
    /\ Len(a.remediation) = 5

\* C1: with the API key set, every failed live call of a stage (exception,
\* empty output, undecodable output) is recovered by that stage's fallback:
\* the stage commits its fallback result, nothing is raised, and the pipeline
\* returns a complete audit that run_audit answers with 200.
C1_LiveFailureRecoveredByFallback ==
    /\ \A i \in DOMAIN commits :
        commits[i].live \in FailedLive => commits[i].mode = "fallback"
    \* no stage call raises: what is raised comes from the extraction or from
    \* writing the report artifact
    /\ (pc = "raised" =>
            \/ exc = "ValueError: PDF extraction failed:"
            \/ Len(calls) = 5 /\ exc \in {"ValueError", "OSError"})
    /\ (Completed => WellFormedAudit(result))
    /\ (pc = "responded" /\ Len(commits) > 1 /\ exc = ""
            => response.status = 200)

\* C2: when classify_document rejects the uploaded document, the pipeline
\* calls none of research_compliance_rules, analyze_pdf, generate_report and
\* run_audit fails with error code NOT_FINANCIAL_DOCUMENT.
C2_RejectedDocumentStopsPipeline ==
    (/\ pc \notin {"idle", "pipeline"}
     /\ req.filename_pdf
     /\ document_type_clean # ""
     /\ req.extractable
     /\ ~classify_document(env.dedalus_key, req.gate).is_financial_document)
    => /\ \A i \in DOMAIN calls : calls[i] \notin {"research", "analyze", "report"}
       /\ (pc = "responded" =>
              /\ response.status = 400
              /\ response.error_code = "NOT_FINANCIAL_DOCUMENT")

\* C3: for every gap list _calculate_score returns
\* max(0, 100 - (15 c + 8 h + 3 m)), c, h, m the numbers of critical, high and
\* medium gaps, an integer in 0..100.
C3_ScoreIsLinearPenalty ==
    u_call.fn = "_calculate_score" =>
        LET c == CountSeverity(u_call.gaps, "critical")
            h == CountSeverity(u_call.gaps, "high")
            m == CountSeverity(u_call.gaps, "medium")
            penalty == 15 * c + 8 * h + 3 * m
        IN  /\ u_ret.value = (IF penalty > 100 THEN 0 ELSE 100 - penalty)
            /\ u_ret.value \in 0..100

\* C4: _calculate_grade maps each score of 0..100 to exactly one grade by the
\* bands >= 90 A, >= 80 B, >= 70 C, >= 60 D, else F; 90 is A, 89 and 80 are B,
\* 79 and 70 are C, 69 and 60 are D, 59 is F.
C4_GradeBands ==
    u_call.fn = "_calculate_grade" =>
        LET sc == u_call.score
            g == u_ret.value
        IN  /\ g \in {"A", "B", "C", "D", "F"}
            /\ (g = "A") = (sc \in 90..100)
            /\ (g = "B") = (sc \in 80..89)
            /\ (g = "C") = (sc \in 70..79)
            /\ (g = "D") = (sc \in 60..69)
            /\ (g = "F") = (sc \in 0..59)

C4_Witness ==
    /\ u_call.fn = "_calculate_grade"
    /\ u_call.score = 90
    /\ u_ret.value = "A"

\* C5: generate_report returns exactly 5 remediation entries for every gap
\* list and on every path: no API key, live success with fewer or more than 5
\* items, live failure followed by the fallback.
C5_RemediationHasFiveEntries ==
    u_call.fn = "generate_report" /\ ~u_ret.value.raised =>
        Len(u_ret.value.ret.remediation) = 5

C5_Witness ==
    /\ u_call.fn = "generate_report"
    /\ Len(u_call.gaps) > 5
    /\ u_ret.value.mode = "live"
    /\ Len(u_call.resp.data.remediation) < 5
    /\ Len(u_ret.value.ret.remediation) = 5

StageOrder == <<"extract", "research", "analyze", "score", "report">>

\* C6: in every pipeline run the stages are invoked in the order extraction,
\* rule retrieval, gap analysis, scoring, report synthesis, each at most once,
\* each committing one result before the next starts; a completed run has
\* invoked and committed every stage exactly once.
C6_StagesInOrderOnce ==
    /\ Len(calls) <= Len(StageOrder)
    /\ calls = SubSeq(StageOrder, 1, Len(calls))
    /\ Len(commits) <= Len(calls)
    /\ \A i \in DOMAIN commits : commits[i].stage = StageOrder[i]
    /\ (pc \in {"research", "analyze", "report"} => Len(commits) = Len(calls))
    /\ (Completed => Len(calls) = 5 /\ Len(commits) = 5)

C6_Witness ==
    /\ pc = "responded"
    /\ response.status = 200
    /\ commits[2].mode = "fallback"
    /\ commits[3].mode = "live"
    /\ commits[5].mode = "fallback"

\* C7: classify_document accepts, with a reason saying validation was skipped,
\* when no API key is set; with a key it rejects when the backend output is
\* empty, cannot be parsed into a verdict, or the call raises.
C7_GateFailsOpenAndClosed ==
    u_call.fn = "classify_document" =>
        /\ (~env.dedalus_key =>
              /\ u_ret.value.is_financial_document
              /\ u_ret.value.reason = "Skipping validation (no API key)")
        /\ (env.dedalus_key
              /\ LiveOutcome(env.dedalus_key, u_call.resp) \in FailedLive
              => ~u_ret.value.is_financial_document)

C7_Witness ==
    /\ u_call.fn = "classify_document"
    /\ env.dedalus_key
    /\ u_call.resp.kind = "str"
    /\ u_call.resp.json = "notjson"
    /\ ~u_ret.value.is_financial_document

\* C8: research_compliance_rules returns the static fallback rules of the
\* category whenever the live call raises, answers with a malformed response
\* or with rules text below 50 characters; it never raises and its rules text
\* is never empty.
C8_ResearchFallsBack ==
    u_call.fn = "research_compliance_rules" =>
        LET live == _research_with_dedalus(u_call.document_type, u_call.resp)
            outcome == LiveOutcome(env.dedalus_key, u_call.resp)
        IN  /\ ~u_ret.value.raised
            /\ u_ret.value.value.rules.len > 0
            /\ (env.dedalus_key
                  /\ (\/ outcome \in FailedLive
                      \/ outcome = "ok" /\ live.value.rules.len < 50)
                  => u_ret.value.value = _FALLBACK_RULES(u_call.document_type))

\* C9: every gap of an audit returned by the pipeline has a severity among
\* critical, high, medium.
C9_GapSeveritiesAreThreeLevel ==
    Completed =>
        \A i \in DOMAIN result.gaps : result.gaps[i].severity \in Severities

\* C10: when the live output of research_compliance_rules, analyze_pdf or
\* generate_report cannot be decoded, the stage returns exactly what it returns
\* for a backend outage: nothing of the live output is in the result.
C10_UndecodableOutputIsAnOutage ==
    (/\ u_call.fn \in {"research_compliance_rules", "analyze_pdf", "generate_report"}
     /\ LiveOutcome(env.dedalus_key, u_call.resp) = "undecodable")
    => CASE u_call.fn = "research_compliance_rules" ->
                u_ret.value = research_compliance_rules(env.dedalus_key,
                    u_call.document_type, [kind |-> "raise", exc |-> "Exception"])
         [] u_call.fn = "analyze_pdf" ->
                u_ret.value = analyze_pdf(env.dedalus_key, u_call.document_type,
                                          [kind |-> "raise"])
         [] u_call.fn = "generate_report" ->
                u_ret.value = generate_report(env.dedalus_key, u_call.audit_id,
                    u_call.document_type, u_call.gaps, [kind |-> "raise"],
                    u_call.pdf)

\* C11: a failure escaping the pipeline that is neither an extraction error
\* nor a gate rejection is answered with status 500 and the fixed detail
\* 'Audit processing failed', without the text of the exception.
C11_UnclassifiedFailureIsGeneric500 ==
    (/\ pc = "responded"
     /\ exc \notin {"", "ValueError: PDF extraction failed:",
                     "ValueError: Invalid document:"})
    => response = HttpError(500, "", "Audit processing failed")

\* C12: when text extraction fails the pipeline stops after the extraction:
\* no research, analysis or report call, no commit, no report file, nothing
\* saved, and run_audit answers 400 with error_code PDF_EXTRACTION_FAILED,
\* which is not the gate-rejection code.
C12_ExtractionFailureAbortsPipeline ==
    exc = "ValueError: PDF extraction failed:" =>
        /\ calls = <<"extract">>
        /\ commits = <<>>
        /\ files = {}
        /\ store = EmptyStore
        /\ result = NoResult
        /\ (pc = "responded" =>
                /\ response.status = 400
                /\ response.error_code = "PDF_EXTRACTION_FAILED"
                /\ response.error_code # "NOT_FINANCIAL_DOCUMENT")

C12_Witness ==
    /\ pc = "responded"
    /\ exc = "ValueError: PDF extraction failed:"
    /\ env.db
    /\ response.error_code = "PDF_EXTRACTION_FAILED"

\* C13: once the pipeline has returned an audit, run_audit answers 200 with
\* that audit (less user_id and source) whatever save_audit did: raised at
\* the user lookup, at the audit insert or at a child insert, or returned.
C13_StorageFailureNeverFailsRequest ==
    pc = "responded" /\ result # NoResult =>
        /\ response.status = 200
        /\ DOMAIN response.body = DOMAIN result \ {"user_id", "source"}
        /\ \A k \in DOMAIN response.body : response.body[k] = result[k]

\* save_audit raised at the insert of the remediation steps
C13_Witness ==
    /\ pc = "responded"
    /\ env.db
    /\ response.status = 200
    /\ \E r \in store.audits : r.audit_id = result.audit_id
    /\ store.audit_gaps # {}
    /\ store.audit_remediations = {}

\* C14: no two pipeline runs are assigned the same audit id, and the id of a
\* run is the one in its result and in its report reference.
C14_AuditIdsAreUnique ==
    /\ \A p, q \in Procs :
        (p # q /\ runs[p].pc # "idle" /\ runs[q].pc # "idle")
        => runs[p].audit.audit_id # runs[q].audit.audit_id
    /\ \A p \in Procs :
        runs[p].pc # "idle" =>
            /\ runs[p].audit.report_pdf_url.name.audit_id = runs[p].audit.audit_id
            /\ report_filename(runs[p].audit.audit_id) \in files

\* C15: a run whose live backend never answers still ends: the call is cut
\* off by a timeout and the stage falls back, so no run waits forever on a
\* call of rule retrieval, analysis or report generation.
C15_LiveCallsAreBoundedByTimeout ==
    pc # "blocked"

\* C16: two audits with distinct ids served at the same time are both saved,
\* whatever the interleaving of their save_audit calls, also when both are
\* of one requester the store does not know yet.
C16_ConcurrentAuditsBothPersisted ==
    \A p, q \in Procs :
        (/\ p # q /\ env.db
         /\ runs[p].pc = "responded" /\ runs[q].pc = "responded"
         /\ runs[p].audit.audit_id # runs[q].audit.audit_id)
        => /\ runs[p].saved /\ runs[q].saved
           /\ \A a \in {runs[p].audit, runs[q].audit} :
                \E r \in store.audits : r.audit_id = a.audit_id

\* C17: _ensure_five_items returns 5 items: a list of n < 5 items comes back
\* unchanged, followed by the first 5 - n default steps in their order; a
\* list of 5 or more items comes back as its first 5 items in their order.
C17_EnsureFiveItemsPadsAndTruncates ==
    u_call.fn = "_ensure_five_items" =>
        /\ Len(u_ret.value) = 5
        /\ \A i \in 1..5 :
            u_ret.value[i] = IF i <= Len(u_call.items)
                             THEN u_call.items[i]
                             ELSE defaults[i - Len(u_call.items)]

C17_Witness ==
    /\ u_call.fn = "_ensure_five_items"
    /\ Len(u_call.items) = 2
    /\ u_ret.value[2] = u_call.items[2]
    /\ u_ret.value[3].text =
          "Document all remediation actions taken with supporting evidence for audit trail."
    /\ u_ret.value[5].text =
          "Schedule a follow-up compliance review within 60 days to verify remediation effectiveness."

\* the timeframe the fallback report gives a severity
FallbackTimeframe ==
    [critical |-> "within 14 days", high |-> "within 30 days",
     medium |-> "within 60 days"]

\* C18, as stated: the fallback remediation has one step per gap of the list,
\* step i naming gap i's title with the timeframe of its severity, followed
\* by the padding to 5 with the generic defaults.
C18_OneStepPerGap ==
    u_call.fn = "_fallback_report" =>
        LET gaps == u_call.gaps
            rem == u_ret.value.remediation
        IN  /\ \A i \in DOMAIN gaps :
                /\ i \in DOMAIN rem
                /\ rem[i].kind = "address"
                /\ rem[i].text = gaps[i].title
                /\ (gaps[i].severity \in Severities =>
                        rem[i].timeframe = FallbackTimeframe[gaps[i].severity])
            /\ \A i \in DOMAIN rem :
                i > Len(gaps) => rem[i] = defaults[i - Len(gaps)]

\* C18, amended: the fallback remediation has one step for each of the first
\* min(n, 5) gaps, in list order, step i naming gap i's title with the
\* timeframe of its severity; it has 5 steps, those after the n-th being the
\* first 5 - n generic defaults.
C18_OneStepPerGapUpToFive ==
    u_call.fn = "_fallback_report" =>
        LET gaps == u_call.gaps
            rem == u_ret.value.remediation
        IN  /\ Len(rem) = 5
            /\ \A i \in 1..5 :
                IF i <= Len(gaps)
                THEN /\ rem[i].kind = "address"
                     /\ rem[i].text = gaps[i].title
                     /\ (gaps[i].severity \in Severities =>
                            rem[i].timeframe = FallbackTimeframe[gaps[i].severity])
                ELSE rem[i] = defaults[i - Len(gaps)]

C18_Witness ==
    /\ u_call.fn = "_fallback_report"
    /\ Len(u_call.gaps) = 6
    /\ u_call.gaps[5].severity = "high"
    /\ u_call.gaps[6].severity = "critical"
    /\ u_ret.value.remediation[5].text = u_call.gaps[5].title
    /\ u_ret.value.remediation[5].timeframe = "within 30 days"

\* a gap list of exactly one critical, one high and one medium gap
OneOfEach(gaps) ==
    /\ Len(gaps) = 3
    /\ \A sev \in Severities :
        Cardinality({ i \in DOMAIN gaps : gaps[i].severity = sev }) = 1

\* C19: for an Invoice with one critical, one high and one medium
\* gap the fallback report has score 74, grade C and 5 remediation entries,
\* and entry 1 names the critical gap's title with the 14-day timeframe.
C19_ScenarioAEntryOneIsCritical ==
    (/\ u_call.fn = "_fallback_report"
     /\ u_call.document_type = "Invoice"
     /\ OneOfEach(u_call.gaps))
    => /\ u_ret.value.score = 74
       /\ u_ret.value.grade = "C"
       /\ Len(u_ret.value.remediation) = 5
       /\ \E i \in DOMAIN u_call.gaps :
            /\ u_call.gaps[i].severity = "critical"
            /\ u_ret.value.remediation[1].text = u_call.gaps[i].title
            /\ u_ret.value.remediation[1].timeframe = "within 14 days"

\* C20: for an empty gap list the fallback report has score 100 and grade A
\* and its remediation is the five generic default steps in their order.
C20_ScenarioBAllDefaults ==
    (u_call.fn = "_fallback_report" /\ u_call.gaps = <<>>)
    => /\ u_ret.value.score = 100
       /\ u_ret.value.grade = "A"
       /\ Len(u_ret.value.remediation) = 5
       /\ \A i \in 1..5 : u_ret.value.remediation[i] = defaults[i]

C20_Witness ==
    /\ u_call.fn = "_fallback_report"
    /\ u_call.gaps = <<>>
    /\ u_ret.value.score = 100
    /\ u_ret.value.remediation[1].kind = "default"
    /\ u_ret.value.remediation[5].text =
          "Establish a continuous monitoring program for high-risk areas."

\* the list with the gaps at positions i and i + 1 exchanged
Swap(s, i) ==
    [k \in 1..Len(s) |->
        IF k = i THEN s[i + 1] ELSE IF k = i + 1 THEN s[i] ELSE s[k]]

\* C21: score and grade depend on the multiset of severities only: exchanging
\* two neighbouring gaps of a list (and so any reordering of it) leaves the
\* score and the grade as they are.
C21_ScoreIsOrderIndependent ==
    u_call.fn = "_calculate_score" =>
        \A i \in 1..(Len(u_call.gaps) - 1) :
            LET permuted == Swap(u_call.gaps, i)
            IN  /\ _calculate_score(permuted) = u_ret.value
                /\ _calculate_grade(_calculate_score(permuted))
                       = _calculate_grade(u_ret.value)

C21_Witness ==
    /\ u_call.fn = "_calculate_score"
    /\ Len(u_call.gaps) = 3
    /\ u_call.gaps[1].severity = "critical"
    /\ u_call.gaps[2].severity = "medium"
    /\ u_call.gaps[3].severity = "high"
    /\ u_ret.value = 74
    /\ _calculate_score(Swap(u_call.gaps, 1)) = 74

\* C22: adding a gap of any severity to a gap list never raises the score,
\* and the empty list scores 100 with grade A.
C22_ScoreIsMonotone ==
    u_call.fn = "_calculate_score" =>
        /\ \A sev \in SeverityLabels :
            _calculate_score(
                Append(u_call.gaps,
                       Gap(sev, "added gap", "added", "added", <<>>)))
              <= u_ret.value
        /\ (u_call.gaps = <<>> =>
                u_ret.value = 100 /\ _calculate_grade(u_ret.value) = "A")

\* the clamp: a list already at score 0
C22_Witness ==
    /\ u_call.fn = "_calculate_score"
    /\ Len(u_call.gaps) >= 7
    /\ \A i \in DOMAIN u_call.gaps : u_call.gaps[i].severity = "critical"
    /\ u_ret.value = 0

\* C23: the fallback gap list of the Gap Analyzer is fixed per category and
\* differs between any two of the four categories.
C23_FallbackGapsDistinctPerCategory ==
    (u_call.fn = "analyze_pdf" /\ ~env.dedalus_key) =>
        /\ u_ret.value.gaps =
              _mock_analysis(u_call.document_type, "DEDALUS_API_KEY not set").gaps
        /\ \A other \in DocTypes \ {u_call.document_type} :
              _mock_analysis(other, "DEDALUS_API_KEY not set").gaps
                 # u_ret.value.gaps

\* C24: whenever analyze_pdf returns the fallback gaps (no API key, backend
\* exception, empty output, output that cannot be parsed) raw_observations
\* begins with the fallback notice.
C24_FallbackGapsAreTagged ==
    (/\ u_call.fn = "analyze_pdf"
     /\ \/ ~env.dedalus_key
        \/ LiveOutcome(env.dedalus_key, u_call.resp) \in FailedLive)
    => /\ u_ret.value.gaps =
             _mock_analysis(u_call.document_type, "").gaps
       /\ u_ret.value.raw_observations.prefix =
             "NOTICE: Using fallback mock data. Reason: "

\* rank of the severity a fallback step's timeframe stands for
TimeframeRank(timeframe) ==
    CASE timeframe = "within 14 days" -> 3
      [] timeframe = "within 30 days" -> 2
      [] OTHER -> 1

SeverityRank(severity) ==
    CASE severity = "critical" -> 3
      [] severity = "high" -> 2
      [] OTHER -> 1

\* C28: the fallback remediation is prioritized by severity: no step for a
\* lower-severity gap comes before a step for a higher-severity gap, and no
\* gap is left without a step while a gap of lower severity has one.
C28_FallbackRemediationIsPrioritized ==
    (/\ u_call.fn = "_fallback_report"
     /\ \A i \in DOMAIN u_call.gaps : u_call.gaps[i].severity \in Severities)
    => LET rem == u_ret.value.remediation
           gaps == u_call.gaps
           HasStep(g) == \E k \in DOMAIN rem :
                            rem[k].kind = "address" /\ rem[k].text = g.title
       IN  /\ \A i, j \in DOMAIN rem :
                (i < j /\ rem[i].kind = "address" /\ rem[j].kind = "address")
                => TimeframeRank(rem[i].timeframe) >= TimeframeRank(rem[j].timeframe)
           /\ \A i, j \in DOMAIN gaps :
                (~HasStep(gaps[i]) /\ HasStep(gaps[j]))
                => SeverityRank(gaps[i].severity) <= SeverityRank(gaps[j].severity)

\* the live output has a non-empty executive summary / remediation list
HasSummary(resp) ==
    /\ "data" \in DOMAIN resp
    /\ "executive_summary" \in DOMAIN resp.data
    /\ resp.data.executive_summary.len > 0

HasRemediation(resp) ==
    /\ "data" \in DOMAIN resp
    /\ "remediation" \in DOMAIN resp.data
    /\ Len(resp.data.remediation) > 0

\* C29: generate_report returns the live output only when the backend gave
\* both a non-empty executive summary and a non-empty remediation list; when
\* either is empty or missing, the summary and the remediation it returns are
\* those of the fallback report for the same score, grade and gaps.
C29_LiveOutputNeedsBothFields ==
    (u_call.fn = "generate_report" /\ ~u_ret.value.raised) =>
        LET score == _calculate_score(u_call.gaps)
            fb == _fallback_report(score, _calculate_grade(score), u_call.gaps,
                                   u_call.document_type)
            both == HasSummary(u_call.resp) /\ HasRemediation(u_call.resp)
        IN  /\ (u_ret.value.mode = "live" => env.dedalus_key /\ both)
            /\ (~both =>
                    /\ u_ret.value.mode = "fallback"
                    /\ u_ret.value.ret.remediation = fb.remediation
                    /\ u_ret.value.ret.executive_summary = fb.executive_summary)

\* the backend gave remediation steps and an empty summary
C29_Witness ==
    /\ u_call.fn = "generate_report"
    /\ env.dedalus_key
    /\ u_call.resp.kind = "ReportOutput"
    /\ u_call.resp.data.executive_summary.len = 0
    /\ Len(u_call.resp.data.remediation) = 3
    /\ Len(u_call.gaps) = 1
    /\ ~u_ret.value.raised
    /\ u_ret.value.ret.remediation[1].kind = "address"
    /\ u_ret.value.ret.remediation[2].kind = "default"
    /\ u_ret.value.ret.executive_summary.kind = "fallback"

\* C25: the report_pdf_url of a returned audit is /api/files/report_<its own
\* audit id>.pdf, the file generate_report wrote for it in the directory the
\* files route reads, so that the route answers the reference with that file.
C25_ReportReferenceResolves ==
    Completed =>
        /\ result.audit_id = audit_id
        /\ result.report_pdf_url =
              [dir |-> "/api/files/",
               name |-> [prefix |-> "report_", audit_id |-> result.audit_id,
                         suffix |-> ".pdf"]]
        /\ result.report_pdf_url = report.report_pdf_url
        /\ get_file(files, result.report_pdf_url.name) =
              [status |-> 200, file |-> result.report_pdf_url.name]

\* the band of a score
GradeBand(score) ==
    IF score >= 90 THEN "A"
    ELSE IF score >= 80 THEN "B"
    ELSE IF score >= 70 THEN "C"
    ELSE IF score >= 60 THEN "D"
    ELSE "F"

\* C26: in every audit record a caller is given (the response of run_audit,
\* an entry of the history, the record of the detail route, the mock records
\* included) the grade is the band of the record's score.
C26_ExposedGradeIsBandOfScore ==
    /\ \A p \in Procs :
            runs[p].pc = "responded" =>
                runs[p].audit.grade = GradeBand(runs[p].audit.score)
    /\ u_ret.fn = "get_history" =>
            \A i \in DOMAIN u_ret.value.audits :
                u_ret.value.audits[i].grade =
                    GradeBand(u_ret.value.audits[i].score)
    /\ (u_ret.fn = "get_audit" /\ "score" \in DOMAIN u_ret.value) =>
            u_ret.value.grade = GradeBand(u_ret.value.score)

SummaryFields ==
    {"audit_id", "document_name", "document_type", "score", "grade", "timestamp"}

\* C27: every entry of the history returned for user_id is the six-field
\* summary of an audit stored for that user_id, with the store configured or
\* not, reachable or not.
C27_HistoryListsOnlyTheRequestersAudits ==
    u_ret.fn = "get_history" =>
        \A i \in DOMAIN u_ret.value.audits :
            LET entry == u_ret.value.audits[i]
            IN  /\ DOMAIN entry = SummaryFields
                /\ \E r \in store.audits :
                        /\ r.audit_id = entry.audit_id
                        /\ r.user_id = u_call.user_id

\* the fields of an audit that the round trip keeps
SameAudit(a, b) ==
    /\ "audit_id" \in DOMAIN b
    /\ b.audit_id = a.audit_id
    /\ b.score = a.score
    /\ b.grade = a.grade
    /\ b.document_name = a.document_name
    /\ b.document_type = a.document_type
    /\ b.executive_summary = a.executive_summary
    /\ b.report_pdf_url = a.report_pdf_url
    /\ b.gaps = a.gaps
    /\ b.remediation = a.remediation

\* C30: a get_audit(a.audit_id) served by the database after save_audit(a)
\* has completed returns a: score, grade, document name and type, summary,
\* report reference, the gaps with their locations in the original order,
\* and the five remediation steps in the original order.
C30_StoreRoundTrip ==
    [][ \A p \in Procs :
            ( /\ store' = store
              /\ runs' = runs
              /\ u_call'.fn = "get_audit"
              /\ env.db
              /\ ~ u_call'.fault
              /\ runs[p].pc # "idle"
              /\ runs[p].saved
              /\ runs[p].audit.audit_id = u_call'.audit_id )
            => SameAudit(runs[p].audit, u_ret'.value) ]_vars

====
